---- MODULE Spec2Model ----
(***************************************************************************)
(* Model of the multicastv6 "roundsend" tools: the multi-stream receiver   *)
(* (src/src/receiver.cpp), the single-stream receiver (src/unnamed/        *)
(* part_000), the stream-id sender (src/unnamed/part_001) and the          *)
(* single-stream sender (src/src/sender.cpp).                              *)
(*                                                                         *)
(* Byte strings (datagrams, payloads, file contents) are sequences of      *)
(* integers 0..255.  The steady clock is counted in whole seconds.         *)
(***************************************************************************)
EXTENDS Integers, Sequences, FiniteSets, TLC

(* ------------------------------ constants ------------------------------ *)

PAYLOAD_SIZE == 1200

HDR_LEN == 12

\* HDR_LEN of the single-stream sender and receiver
LEGACY_HDR_LEN == 8

FLAG_FINAL == 1

MAX_PKT == HDR_LEN + PAYLOAD_SIZE

LEGACY_MAX_PKT == LEGACY_HDR_LEN + PAYLOAD_SIZE

\* the stream id the stream-id sender uses unless told otherwise
stream_id == 1

\* the bound of the final-marker retransmission loop of both senders
RETRANSMITS == 3

(* -------------------------------- bounds ------------------------------- *)

\* highest sequence number the modelled network delivers
MaxSeq == 3

\* the clock runs from 0 to MaxTime seconds
MaxTime == 2

\* the largest -t value tried, in seconds
MaxTimeout == 1

\* stream ids seen on the channel
StreamIds == {1, 2}

\* payloads tried where the payload varies (empty, and two that differ)
Payloads == {<<>>, <<1>>, <<2>>}

\* the sequence numbers the modelled network delivers for stream 2, a short stream
ShortSeqs == {1}

\* the longest file a sender is run on alone has MaxChunks full chunks and a byte
MaxChunks == 3

\* the longest file sent to a receiver has MaxE2EChunks full chunks
MaxE2EChunks == 2

\* the longest time, in seconds, one iteration of a paced send loop takes to
\* reach its pacing block
MaxStall == 3

(* ------------------------------ byte helpers --------------------------- *)

Min(a, b) == IF a < b THEN a ELSE b

\* the four bytes of a uint32 stored without htonl on a little-endian host
LE32(x) ==
    << x % 256, (x \div 256) % 256, (x \div 65536) % 256, (x \div 16777216) % 256 >>

\* htonl + memcpy: the four bytes of a uint32, most significant first
BE32(x) ==
    << (x \div 16777216) % 256, (x \div 65536) % 256, (x \div 256) % 256, x % 256 >>

\* memcpy + ntohl: the uint32 stored big-endian at offset off of b
FromBE32(b, off) ==
    b[off + 1] * 16777216 + b[off + 2] * 65536 + b[off + 3] * 256 + b[off + 4]

\* flags & FLAG_FINAL
IsFinal(flags) == (flags % 2) = FLAG_FINAL

\* the datagram the stream-id sender builds: 12-byte header, then the payload
Encode(sid, seq, flags, payload) ==
    BE32(sid) \o BE32(seq) \o BE32(flags) \o payload

(* ----------------------------- string helpers -------------------------- *)

\* a std::string is the sequence of its characters

\* the output target that stands for stdout
Dash == << "-" >>

\* the placeholder of an output pattern
Placeholder == << "{", "i", "d", "}" >>

\* an output pattern as the README writes it: stream_{id}.mp4
StreamPattern ==
    << "s", "t", "r", "e", "a", "m", "_" >> \o Placeholder \o << ".", "m", "p", "4" >>

\* an output pattern without a placeholder: out.mp4
PlainPattern == << "o", "u", "t", ".", "m", "p", "4" >>

\* std::string::find: the 1-based position of the first occurrence of sub in
\* str, 0 for npos
Find(str, sub) ==
    LET hits == { i \in 1 .. (Len(str) - Len(sub) + 1) :
                    SubSeq(str, i, i + Len(sub) - 1) = sub }
    IN  IF hits = {} THEN 0 ELSE CHOOSE i \in hits : \A j \in hits : i <= j

Digit(d) == << "0", "1", "2", "3", "4", "5", "6", "7", "8", "9" >>[d + 1]

\* std::to_string of an unsigned value
RECURSIVE to_string(_)
to_string(n) ==
    IF n < 10 THEN << Digit(n) >> ELSE to_string(n \div 10) \o << Digit(n % 10) >>

\* std::string::replace(pos, len, with)
Replace(str, pos, len, with) ==
    SubSeq(str, 1, pos - 1) \o with \o SubSeq(str, pos + len, Len(str))

\* "create filename from pattern": the name of the file opened for stream sid
FileName(pattern, sid) ==
    LET pos == Find(pattern, Placeholder)
    IN  IF pos # 0 THEN Replace(pattern, pos, Len(Placeholder), to_string(sid))
        ELSE pattern

(* ------------------------------- variables ----------------------------- *)

VARIABLES
    \* receiver.cpp: configuration (read-only after startup)
    subscribe_all,      \* -s all
    subs,               \* the subscribed ids otherwise
    out_pattern,        \* -o
    timeout,            \* -t, seconds
    openable,           \* environment: the stream ids whose output file can be opened
    \* receiver.cpp: state of main()
    pc,                 \* "off" | "run" | "done"
    streams,            \* std::map<uint32_t, StreamState>
    files,              \* bytes written through each stream's fout
    cout,               \* bytes written to std::cout
    cerr,               \* the timeout reports written to std::cerr
    sinklog,            \* what the last loop iteration wrote to std::cerr about
                        \* a sink: "none" | "error" | "opened" | "stdout"
    rx,                 \* the datagram of the last loop iteration, decoded
    ev,                 \* the branch the last loop iteration took
    first,              \* history: per stream, the first payload ingested per sequence
    now,                \* steady clock, seconds
    \* part_000: the single-stream receiver's main()
    legacy,
    \* part_001 / sender.cpp: the sender's main()
    snd,                \* which sender runs, its position, seq, and the state of infile
    infile,             \* the bytes of the file being sent
    g_interrupted,      \* the flag the signal handler sets
    \* the channel
    sent                \* the datagrams handed to sendto so far, in order

vars == << subscribe_all, subs, out_pattern, timeout, openable, pc, streams,
           files, cout, cerr, sinklog, rx, ev, first, now, legacy, snd, infile,
           g_interrupted, sent >>

cfgvars == << subscribe_all, subs, out_pattern, timeout, openable >>

\* the state of the stream-id receiver's loop
rcvvars == << pc, streams, files, cout, cerr, sinklog, first >>

sndvars == << snd, infile, g_interrupted >>

(* ------------------------- receiver.cpp: StreamState ------------------- *)

EmptyMap == [k \in {} |-> <<>>]

\* a default-constructed StreamState
NewStreamState ==
    [ expected   |-> 1,
      buffer     |-> EmptyMap,
      final_seen |-> FALSE,
      final_seq  |-> 0,
      final_at   |-> 0,
      has_file   |-> FALSE,
      is_open    |-> FALSE,
      fname      |-> << >> ]       \* the path fout was opened on

\* streams[sid]: the entry, default-constructed when absent
StreamOf(m, sid) == IF sid \in DOMAIN m THEN m[sid] ELSE NewStreamState

\* PutStream with one StreamState shared by every stream id
PutStreamShared(m, sid, st) ==
    [s \in (DOMAIN m) \cup {sid} |-> st]

\* the map with m[sid] = st
PutStream(m, sid, st) ==
    [s \in (DOMAIN m) \cup {sid} |-> IF s = sid THEN st ELSE m[s]]

\* single_to_stdout, computed once before the loop
single_to_stdout ==
    (~subscribe_all) /\ Cardinality(subs) = 1 /\ out_pattern = Dash

\* st.final_seen && st.expected > st.final_seq
Finished(st) == st.final_seen /\ st.expected > st.final_seq

\* an all_done loop that skips the subscribed ids not in the map
AllSubsDoneSeenOnly(m) ==
    \A sid \in subs \cap DOMAIN m : Finished(m[sid])

\* the all_done loop over subs (both copies of it)
AllSubsDone(m) ==
    \A sid \in subs : sid \in DOMAIN m /\ Finished(m[sid])

\* the sequence number the flush loop stops at: the first key >= e not in buf
RECURSIVE FlushEnd(_, _)
FlushEnd(e, buf) == IF e \in DOMAIN buf THEN FlushEnd(e + 1, buf) ELSE e

\* the payloads buf[a], buf[a+1], .., buf[b-1] in that order
RECURSIVE FlushBytes(_, _, _)
FlushBytes(buf, a, b) ==
    IF a >= b THEN <<>> ELSE buf[a] \o FlushBytes(buf, a + 1, b)

\* a flush loop without its "st.buffer.erase(it)"
EraseNothing(buf, a, b) == buf

\* buf after erasing the keys a..b-1
Erase(buf, a, b) == [k \in (DOMAIN buf) \ (a .. (b - 1)) |-> buf[k]]

(* --------------------- receiver.cpp: one frame's handling -------------- *)

\* Decode with the payload taken from the last byte of the header on
DecodeFromHeaderEnd(d) ==
    LET n == Min(Len(d), MAX_PKT)
    IN  IF n < HDR_LEN
        THEN [n |-> n, sid |-> 0, seq |-> 0, flags |-> 0, payload |-> <<>>, raw |-> d]
        ELSE [n |-> n, sid |-> FromBE32(d, 0), seq |-> FromBE32(d, 4),
              flags |-> FromBE32(d, 8), payload |-> SubSeq(d, HDR_LEN, n), raw |-> d]

\* what recv leaves in rxbuf, decoded: n is recv's result (at most the buffer's
\* size), the header fields are read only when n >= HDR_LEN; raw keeps the
\* datagram as it was on the wire
Decode(d) ==
    LET n == Min(Len(d), MAX_PKT)
    IN  IF n < HDR_LEN
        THEN [n |-> n, sid |-> 0, seq |-> 0, flags |-> 0, payload |-> <<>>, raw |-> d]
        ELSE [n |-> n, sid |-> FromBE32(d, 0), seq |-> FromBE32(d, 4),
              flags |-> FromBE32(d, 8), payload |-> SubSeq(d, HDR_LEN + 1, n),
              raw |-> d]

\* rx when recv returned -1
NoDatagram ==
    [n |-> -1, sid |-> 0, seq |-> 0, flags |-> 0, payload |-> <<>>, raw |-> <<>>]

\* "open file if not yet": the StreamState after the attempt
OpenSink(sid, st) ==
    IF st.has_file THEN st
    ELSE IF single_to_stdout THEN [st EXCEPT !.has_file = FALSE]
    ELSE IF sid \in openable
    THEN [st EXCEPT !.has_file = TRUE, !.is_open = TRUE,
                    !.fname = FileName(out_pattern, sid)]
    ELSE st

\* "open file if not yet": the line the attempt writes to std::cerr
SinkMessage(sid, st) ==
    IF st.has_file THEN "none"
    ELSE IF single_to_stdout THEN "stdout"
    ELSE IF sid \in openable THEN "opened"
    ELSE "error"

\* Ingest whose out-of-order branch stores the payload without looking for an
\* entry already present
IngestOverwrite(st, seq, payload) ==
    IF seq < st.expected
    THEN [st |-> st, bytes |-> <<>>, branch |-> "stale"]
    ELSE IF seq = st.expected
    THEN LET e1 == st.expected + 1
             e2 == FlushEnd(e1, st.buffer)
         IN  [st |-> [st EXCEPT !.expected = e2,
                                !.buffer = Erase(st.buffer, e1, e2)],
              bytes |-> payload \o FlushBytes(st.buffer, e1, e2),
              branch |-> "inorder"]
    ELSE [st |-> [st EXCEPT !.buffer = (seq :> payload) @@ st.buffer],
          bytes |-> <<>>,
          branch |-> IF seq \in DOMAIN st.buffer THEN "dup" ELSE "buffered"]

\* Ingest without the "seq < st.expected" test: an old frame is buffered
IngestNoStale(st, seq, payload) ==
    IF seq = st.expected
    THEN LET e1 == st.expected + 1
             e2 == FlushEnd(e1, st.buffer)
         IN  [st |-> [st EXCEPT !.expected = e2,
                                !.buffer = Erase(st.buffer, e1, e2)],
              bytes |-> payload \o FlushBytes(st.buffer, e1, e2),
              branch |-> "inorder"]
    ELSE IF seq \in DOMAIN st.buffer
    THEN [st |-> st, bytes |-> <<>>, branch |-> "dup"]
    ELSE [st |-> [st EXCEPT !.buffer = (seq :> payload) @@ st.buffer],
          bytes |-> <<>>, branch |-> "buffered"]

\* Ingest without the "flush buffered" loop of the in-order branch
IngestNoDrain(st, seq, payload) ==
    IF seq < st.expected
    THEN [st |-> st, bytes |-> <<>>, branch |-> "stale"]
    ELSE IF seq = st.expected
    THEN [st |-> [st EXCEPT !.expected = st.expected + 1],
          bytes |-> payload, branch |-> "inorder"]
    ELSE IF seq \in DOMAIN st.buffer
    THEN [st |-> st, bytes |-> <<>>, branch |-> "dup"]
    ELSE [st |-> [st EXCEPT !.buffer = (seq :> payload) @@ st.buffer],
          bytes |-> <<>>, branch |-> "buffered"]

\* the three-way branch on seq against st.expected: the new StreamState, the
\* bytes handed to the sink in order, and the branch taken
Ingest(st, seq, payload) ==
    IF seq < st.expected
    THEN [st |-> st, bytes |-> <<>>, branch |-> "stale"]
    ELSE IF seq = st.expected
    THEN LET e1 == st.expected + 1
             e2 == FlushEnd(e1, st.buffer)
         IN  [st |-> [st EXCEPT !.expected = e2,
                                !.buffer = Erase(st.buffer, e1, e2)],
              bytes |-> payload \o FlushBytes(st.buffer, e1, e2),
              branch |-> "inorder"]
    ELSE IF seq \in DOMAIN st.buffer
    THEN [st |-> st, bytes |-> <<>>, branch |-> "dup"]
    ELSE [st |-> [st EXCEPT !.buffer = (seq :> payload) @@ st.buffer],
          bytes |-> <<>>, branch |-> "buffered"]

\* the sink a write of this stream goes to: "stdout", "file" or "none"
SinkOf(st, nstreams) ==
    IF single_to_stdout /\ nstreams = 1 /\ ~st.has_file THEN "stdout"
    ELSE IF st.has_file /\ st.is_open THEN "file"
    ELSE "none"

\* MarkFinal that keeps a final_seq already recorded when it is the higher one
MarkFinalKeepHigher(st, seq, flags) ==
    IF IsFinal(flags)
    THEN [st EXCEPT !.final_seen = TRUE,
                    !.final_seq = IF st.final_seen /\ st.final_seq > seq
                                  THEN st.final_seq ELSE seq,
                    !.final_at = now]
    ELSE st

\* "if (flags & FLAG_FINAL)": the final fields after the frame
MarkFinal(st, seq, flags) ==
    IF IsFinal(flags)
    THEN [st EXCEPT !.final_seen = TRUE, !.final_seq = seq, !.final_at = now]
    ELSE st

\* an exit path that leaves the file open
CloseSinkNot(st) == st

\* "if (st.has_file && st.fout.is_open()) st.fout.close()"
CloseSink(st) == [st EXCEPT !.is_open = FALSE]

\* after the loop: per stream, flush what is contiguous at expected, then close
ExitFlushState(m) ==
    [s \in DOMAIN m |->
        LET e2 == FlushEnd(m[s].expected, m[s].buffer)
        IN  CloseSink([m[s] EXCEPT !.expected = e2,
                                   !.buffer = Erase(m[s].buffer, m[s].expected, e2)])]

ExitFlushFiles(m, fs) ==
    [s \in DOMAIN fs |->
        IF s \in DOMAIN m /\ m[s].has_file /\ m[s].is_open
        THEN fs[s] \o FlushBytes(m[s].buffer, m[s].expected,
                                 FlushEnd(m[s].expected, m[s].buffer))
        ELSE fs[s]]

\* the history of first-ingested payloads with (sid, seq) added when new
NoteFirst(h, sid, seq, payload) ==
    IF seq \in DOMAIN h[sid] THEN h
    ELSE [h EXCEPT ![sid] = (seq :> payload) @@ h[sid]]

\* a subscription test that lets every stream id through
FilteredNever(sid) == FALSE

\* "if (!subscribe_all) { if (subs.find(sid) == subs.end()) continue; }"
Filtered(sid) == (~subscribe_all) /\ sid \notin subs

\* one loop iteration whose recv returned datagram d
Recv(d) ==
    /\ pc = "run"
    /\ LET f == Decode(d)
       IN
       /\ rx' = f
       /\ IF f.n < HDR_LEN
          THEN /\ ev' = "short"
               /\ sinklog' = "none"
               /\ UNCHANGED << pc, streams, files, cout, first >>
          ELSE IF Filtered(f.sid)
          THEN /\ ev' = "unsubscribed"
               /\ sinklog' = "none"
               /\ UNCHANGED << pc, streams, files, cout, first >>
          ELSE
            LET st0  == OpenSink(f.sid, StreamOf(streams, f.sid))
                opened == st0.has_file /\ ~StreamOf(streams, f.sid).has_file
                fs0  == IF opened THEN [files EXCEPT ![f.sid] = <<>>] ELSE files
                ing  == Ingest(st0, f.seq, f.payload)
                n1   == Cardinality((DOMAIN streams) \cup {f.sid})
                sink == SinkOf(st0, n1)
                fs1  == IF sink = "file"
                        THEN [fs0 EXCEPT ![f.sid] = @ \o ing.bytes] ELSE fs0
                co1  == IF sink = "stdout" THEN cout \o ing.bytes ELSE cout
                st1  == IF ing.branch = "stale" THEN ing.st
                        ELSE MarkFinal(ing.st, f.seq, f.flags)
                fin  == ing.branch # "stale" /\ Finished(st1)
                st2  == IF fin THEN CloseSink(st1) ELSE st1
                m2   == PutStream(streams, f.sid, st2)
                brk  == fin /\ (~subscribe_all) /\ AllSubsDone(m2)
            IN  /\ ev' = ing.branch
                /\ sinklog' = SinkMessage(f.sid, StreamOf(streams, f.sid))
                /\ first' = NoteFirst(first, f.sid, f.seq, f.payload)
                /\ cout' = co1
                /\ IF brk
                   THEN /\ pc' = "done"
                        /\ streams' = ExitFlushState(m2)
                        /\ files' = ExitFlushFiles(m2, fs1)
                   ELSE /\ pc' = "run"
                        /\ streams' = m2
                        /\ files' = fs1
    /\ UNCHANGED << cfgvars, cerr, now, legacy, sndvars, sent >>

\* a timeout test without the "if (st.final_seen)" around it
TimedOutAnyStream(st) == (now - st.final_at) > timeout

\* the per-stream test of the timeout tick
TimedOut(st) == st.final_seen /\ (now - st.final_at) > timeout

\* the stream after the tick's "st.final_seen = false"
TickStream(st) ==
    IF TimedOut(st) THEN [st EXCEPT !.final_seen = FALSE] ELSE st

\* the line written to std::cerr for a timed-out stream: it names the stream
TimeoutReport(sid, st) == [stream |-> sid]

\* TickAllDone without the "if (subscribe_all) all_done = false"
TickAllDoneNoAllTest(m) == AllSubsDone(m)

\* the tick's "if (subscribe_all) all_done = false; else <loop over subs>"
TickAllDone(m) == (~subscribe_all) /\ AllSubsDone(m)

\* one loop iteration whose recv returned -1 with EWOULDBLOCK, EAGAIN or EINTR
RecvTimeout ==
    /\ pc = "run"
    /\ LET m1 == [s \in DOMAIN streams |-> TickStream(streams[s])]
       IN  /\ cerr' = cerr \cup { TimeoutReport(s, streams[s]) :
                                    s \in {t \in DOMAIN streams : TimedOut(streams[t])} }
           /\ IF TickAllDone(m1)
              THEN /\ pc' = "done"
                   /\ streams' = ExitFlushState(m1)
                   /\ files' = ExitFlushFiles(m1, files)
              ELSE /\ pc' = "run"
                   /\ streams' = m1
                   /\ files' = files
    /\ rx' = NoDatagram
    /\ ev' = "tick"
    /\ sinklog' = "none"
    /\ UNCHANGED << cfgvars, cout, first, now, legacy, sndvars, sent >>

\* one loop iteration whose recv returned -1 with any other errno
RecvError ==
    /\ pc = "run"
    /\ pc' = "done"
    /\ streams' = ExitFlushState(streams)
    /\ files' = ExitFlushFiles(streams, files)
    /\ rx' = NoDatagram
    /\ ev' = "error"
    /\ sinklog' = "none"
    /\ UNCHANGED << cfgvars, cout, cerr, first, now, legacy, sndvars, sent >>

\* a second passes on the steady clock
Advance ==
    /\ now < MaxTime
    /\ now' = now + 1
    /\ UNCHANGED << cfgvars, rcvvars, rx, ev, legacy, sndvars, sent >>

(* ------------------- part_000: the single-stream receiver -------------- *)

\* the datagram the single-stream sender builds: 8-byte header, then the payload
LegacyEncode(seq, flags, payload) == BE32(seq) \o BE32(flags) \o payload

\* what recv leaves in rxbuf, decoded (there is no stream id: sid stays 0)
LegacyDecode(d) ==
    LET n == Min(Len(d), LEGACY_MAX_PKT)
    IN  IF n < LEGACY_HDR_LEN
        THEN [n |-> n, sid |-> 0, seq |-> 0, flags |-> 0, payload |-> <<>>, raw |-> d]
        ELSE [n |-> n, sid |-> 0, seq |-> FromBE32(d, 0), flags |-> FromBE32(d, 4),
              payload |-> SubSeq(d, LEGACY_HDR_LEN + 1, n), raw |-> d]

\* the three-way branch on seq against expected
LegacyIngest(st, seq, payload) ==
    IF seq < st.expected
    THEN [st |-> st, bytes |-> <<>>, branch |-> "stale"]
    ELSE IF seq = st.expected
    THEN LET e1 == st.expected + 1
             e2 == FlushEnd(e1, st.buffer)
         IN  [st |-> [st EXCEPT !.expected = e2,
                                !.buffer = Erase(st.buffer, e1, e2)],
              bytes |-> payload \o FlushBytes(st.buffer, e1, e2),
              branch |-> "inorder"]
    ELSE IF seq \in DOMAIN st.buffer
    THEN [st |-> st, bytes |-> <<>>, branch |-> "dup"]
    ELSE [st |-> [st EXCEPT !.buffer = (seq :> payload) @@ st.buffer],
          bytes |-> <<>>, branch |-> "buffered"]

\* "if (final_seen && expected > final_seq)"
LegacyFinished(st) == st.final_seen /\ st.expected > st.final_seq

\* the test of the timeout tick
LegacyTimedOut(st) == st.final_seen /\ (now - st.final_at) > timeout

\* after the loop: "best-effort flush remaining in-order buffered packets"
LegacyExit(st) ==
    LET e2 == FlushEnd(st.expected, st.buffer)
    IN  [st EXCEPT !.pc = "done",
                   !.out = @ \o FlushBytes(st.buffer, st.expected, e2),
                   !.buffer = Erase(st.buffer, st.expected, e2),
                   !.expected = e2]

\* one loop iteration whose recv returned datagram d
LegacyRecv(d) ==
    /\ legacy.pc = "run"
    /\ LET f == LegacyDecode(d)
       IN
       /\ rx' = f
       /\ IF f.n < LEGACY_HDR_LEN
          THEN /\ ev' = "short"
               /\ UNCHANGED legacy
          ELSE
            LET ing == LegacyIngest(legacy, f.seq, f.payload)
                st0 == [ing.st EXCEPT
                          !.out = @ \o ing.bytes,
                          !.first = IF f.seq \in DOMAIN @ THEN @
                                    ELSE (f.seq :> f.payload) @@ @]
                st1 == IF ing.branch # "stale" /\ IsFinal(f.flags)
                       THEN [st0 EXCEPT !.final_seen = TRUE, !.final_seq = f.seq,
                                        !.final_at = now]
                       ELSE st0
                brk == ing.branch # "stale" /\ LegacyFinished(st1)
            IN  /\ ev' = ing.branch
                /\ legacy' = IF brk THEN LegacyExit(st1) ELSE st1
    /\ UNCHANGED << cfgvars, rcvvars, now, sndvars, sent >>

\* the line written to std::cerr when the finalization timeout expired
LegacyTimeoutReport(st) ==
    [ expected |-> st.expected, final |-> st.final_seq,
      buffered |-> Cardinality(DOMAIN st.buffer) ]

\* one loop iteration whose recv returned -1 with EWOULDBLOCK, EAGAIN or EINTR
LegacyRecvTimeout ==
    /\ legacy.pc = "run"
    /\ legacy' = IF LegacyTimedOut(legacy)
                 THEN LegacyExit([legacy EXCEPT
                                    !.report = @ \cup {LegacyTimeoutReport(legacy)}])
                 ELSE legacy
    /\ rx' = NoDatagram
    /\ ev' = "tick"
    /\ UNCHANGED << cfgvars, rcvvars, now, sndvars, sent >>

\* one loop iteration whose recv returned -1 with any other errno
LegacyRecvError ==
    /\ legacy.pc = "run"
    /\ legacy' = LegacyExit(legacy)
    /\ rx' = NoDatagram
    /\ ev' = "error"
    /\ UNCHANGED << cfgvars, rcvvars, now, sndvars, sent >>

(* ---------------------- part_001: the stream-id sender ----------------- *)

\* ReadChunk with eofbit set as soon as the last byte of the file is read
ReadChunkEagerEof(s) ==
    LET avail == Len(infile) - s.pos
        n     == IF s.eof THEN 0 ELSE Min(avail, PAYLOAD_SIZE)
    IN  [ n |-> n, bytes |-> SubSeq(infile, s.pos + 1, s.pos + n),
          eof |-> s.eof \/ avail <= PAYLOAD_SIZE ]

\* infile.read(buf.data() + HDR_LEN, PAYLOAD_SIZE) on the sender state s:
\* gcount, the bytes read, and eofbit afterwards (set by a read that runs into
\* the end of the file; a stream with eofbit set reads nothing)
ReadChunk(s) ==
    LET avail == Len(infile) - s.pos
        n     == IF s.eof THEN 0 ELSE Min(avail, PAYLOAD_SIZE)
    IN  [ n |-> n, bytes |-> SubSeq(infile, s.pos + 1, s.pos + n),
          eof |-> s.eof \/ avail < PAYLOAD_SIZE ]

\* the sender state as the send loop is left with the stream at r
LoopExit(s, r, log) ==
    [s EXCEPT !.pc = "post", !.pos = s.pos + r.n, !.eof = r.eof, !.mark = Len(log)]

\* a final test that fires on eofbit alone when the chunk is full
IsFinalChunkFullOnly(r) == r.n >= PAYLOAD_SIZE /\ r.eof

\* "bool is_final = (n < PAYLOAD_SIZE) || infile.eof()"
IsFinalChunk(r) == r.n < PAYLOAD_SIZE \/ r.eof

\* "if (pps > 0) interval = 1.0 / double(pps)", on a clock of whole seconds
Interval(pps) == IF pps > 0 THEN 1 \div pps ELSE 0

\* the pacing block: the time at which "last = steady_clock::now()" is taken,
\* after the sleep of interval - elapsed when elapsed < interval
PaceTo(s) ==
    IF s.pps > 0 /\ (now - s.last) < Interval(s.pps)
    THEN s.last + Interval(s.pps)
    ELSE now

\* the sender state after the pacing block ended at time t
Paced(s, t) == IF s.pps > 0 THEN [s EXCEPT !.last = t] ELSE s

\* the body of one iteration, run from the sender state s: read a chunk, build
\* the frame, pace, sendto; ok says whether sendto succeeds
SendBody(s, ok) ==
    LET r == ReadChunk(s)
        d == Encode(stream_id, s.seq,
                    IF IsFinalChunk(r) THEN FLAG_FINAL ELSE 0, r.bytes)
        t == PaceTo(s)
    IN  IF r.n <= 0
        THEN /\ snd' = LoopExit(s, r, sent)
             /\ sent' = sent
             /\ now' = now
        ELSE IF ~ok
        THEN /\ snd' = Paced([LoopExit(s, r, sent) EXCEPT !.failed = TRUE], t)
             /\ sent' = sent
             /\ now' = t
        ELSE /\ sent' = Append(sent, d)
             /\ now' = t
             /\ snd' = Paced(IF IsFinalChunk(r)
                              THEN [LoopExit(s, r, sent') EXCEPT !.seq = s.seq + 1]
                              ELSE [s EXCEPT !.seq = s.seq + 1,
                                             !.pos = s.pos + r.n, !.eof = r.eof],
                              t)

\* one iteration of "while (!g_interrupted)", the loop test included, with no
\* signal arriving inside it; ok says whether sendto succeeds
SendStep(ok) ==
    /\ snd.prog = "part_001"
    /\ snd.pc = "loop"
    /\ IF g_interrupted # 0
       THEN /\ snd' = [snd EXCEPT !.pc = "post", !.mark = Len(sent)]
            /\ sent' = sent
            /\ now' = now
       ELSE SendBody(snd, ok)
    /\ UNCHANGED << cfgvars, rcvvars, rx, ev, legacy, infile, g_interrupted >>

\* the loop test "while (!g_interrupted)" that never sees the flag
LoopTestBlind ==
    /\ snd.prog = "part_001"
    /\ snd.pc = "loop"
    /\ snd' = [snd EXCEPT !.pc = "body"]
    /\ UNCHANGED << cfgvars, rcvvars, rx, ev, now, legacy, infile, g_interrupted, sent >>

\* the loop test "while (!g_interrupted)" alone: the body is entered, or the
\* loop is left
LoopTest ==
    /\ snd.prog = "part_001"
    /\ snd.pc = "loop"
    /\ snd' = IF g_interrupted # 0
              THEN [snd EXCEPT !.pc = "post", !.mark = Len(sent)]
              ELSE [snd EXCEPT !.pc = "body"]
    /\ UNCHANGED << cfgvars, rcvvars, rx, ev, now, legacy, infile, g_interrupted, sent >>

\* the body of an iteration whose loop test was passed earlier
LoopBody(ok) ==
    /\ snd.prog = "part_001"
    /\ snd.pc = "body"
    /\ SendBody([snd EXCEPT !.pc = "loop"], ok)
    /\ UNCHANGED << cfgvars, rcvvars, rx, ev, legacy, infile, g_interrupted >>

LoopBodyAny == \E ok \in BOOLEAN : LoopBody(ok)

SendAny == \E ok \in BOOLEAN : SendStep(ok)

\* the header-only frame with the final flag
Marker(seq) == Encode(stream_id, seq, FLAG_FINAL, <<>>)

\* "if (g_interrupted) { ... sendto(..., HDR_LEN, ...) }" after the loop
PostLoop ==
    /\ snd.prog = "part_001"
    /\ snd.pc = "post"
    /\ sent' = IF g_interrupted # 0 THEN Append(sent, Marker(snd.seq)) ELSE sent
    /\ snd' = [snd EXCEPT !.pc = "retx", !.i = 0, !.intr = (g_interrupted # 0)]
    /\ UNCHANGED << cfgvars, rcvvars, rx, ev, now, legacy, infile, g_interrupted >>

\* the retransmission loop sends once and stops after the first marker
RetxContinuesOnce(i) == i < 1

\* the test of "for (int i = 0; i < 3; ++i)"
RetxContinues(i) == i < RETRANSMITS

\* one iteration of the retransmission loop; the last one returns from main
Retransmit ==
    /\ snd.prog = "part_001"
    /\ snd.pc = "retx"
    /\ IF RetxContinues(snd.i)
       THEN /\ sent' = Append(sent, Marker(snd.seq))
            /\ snd' = [snd EXCEPT !.i = snd.i + 1,
                                   !.pc = IF RetxContinues(snd.i + 1)
                                          THEN "retx" ELSE "done"]
       ELSE /\ sent' = sent
            /\ snd' = [snd EXCEPT !.pc = "done"]
    /\ UNCHANGED << cfgvars, rcvvars, rx, ev, now, legacy, infile, g_interrupted >>

\* a second passes while an iteration of the paced send loop is on its way to
\* the pacing block (reading the file, waiting for the processor)
Stall ==
    /\ snd.pc = "loop"
    /\ snd.pps > 0
    /\ now - snd.last < MaxStall
    /\ now' = now + 1
    /\ UNCHANGED << cfgvars, rcvvars, rx, ev, legacy, sndvars, sent >>

\* sigint_handler: SIGINT or SIGTERM arrives while the sender runs
Interrupt ==
    /\ snd.pc \in {"loop", "body", "post", "retx"}
    /\ g_interrupted = 0
    /\ g_interrupted' = 1
    /\ UNCHANGED << cfgvars, rcvvars, rx, ev, now, legacy, snd, infile, sent >>

(* --------------------- sender.cpp: the single-stream sender ------------ *)

\* the body of one iteration, run from the sender state s: read a chunk, build
\* the frame, pace, sendto; ok says whether sendto succeeds
LegacySendBody(s, ok) ==
    LET r == ReadChunk(s)
        d == LegacyEncode(s.seq, IF r.eof THEN FLAG_FINAL ELSE 0, r.bytes)
        t == PaceTo(s)
    IN  /\ now' = t
        /\ IF ~ok
           THEN /\ snd' = Paced([LoopExit(s, r, sent) EXCEPT !.failed = TRUE], t)
                /\ sent' = sent
           ELSE /\ sent' = Append(sent, d)
                /\ snd' = Paced(IF r.eof
                                 THEN LoopExit(s, r, sent')
                                 ELSE [s EXCEPT !.seq = s.seq + 1,
                                                !.pos = s.pos + r.n,
                                                !.eof = r.eof],
                                 t)

\* one iteration of "while (!infile.eof() && !g_interrupted)", the loop test
\* included, with no signal arriving inside it; ok says whether sendto succeeds
LegacySendStep(ok) ==
    /\ snd.prog = "sender.cpp"
    /\ snd.pc = "loop"
    /\ IF snd.eof \/ g_interrupted # 0
       THEN /\ snd' = [snd EXCEPT !.pc = "post", !.mark = Len(sent)]
            /\ sent' = sent
            /\ now' = now
       ELSE LegacySendBody(snd, ok)
    /\ UNCHANGED << cfgvars, rcvvars, rx, ev, legacy, infile, g_interrupted >>

\* the loop test "while (!infile.eof() && !g_interrupted)" alone
LegacyLoopTest ==
    /\ snd.prog = "sender.cpp"
    /\ snd.pc = "loop"
    /\ snd' = IF snd.eof \/ g_interrupted # 0
              THEN [snd EXCEPT !.pc = "post", !.mark = Len(sent)]
              ELSE [snd EXCEPT !.pc = "body"]
    /\ UNCHANGED << cfgvars, rcvvars, rx, ev, now, legacy, infile, g_interrupted, sent >>

\* the body of an iteration whose loop test was passed earlier
LegacyLoopBody(ok) ==
    /\ snd.prog = "sender.cpp"
    /\ snd.pc = "body"
    /\ LegacySendBody([snd EXCEPT !.pc = "loop"], ok)
    /\ UNCHANGED << cfgvars, rcvvars, rx, ev, legacy, infile, g_interrupted >>

LegacyLoopBodyAny == \E ok \in BOOLEAN : LegacyLoopBody(ok)

LegacySendAny == \E ok \in BOOLEAN : LegacySendStep(ok)

\* the header-only frame with the final flag
LegacyMarker(seq) == LegacyEncode(seq, FLAG_FINAL, <<>>)

\* "if (g_interrupted) { ... sendto(..., HDR_LEN, ...) }" after the loop
LegacyPostLoop ==
    /\ snd.prog = "sender.cpp"
    /\ snd.pc = "post"
    /\ sent' = IF g_interrupted # 0 THEN Append(sent, LegacyMarker(snd.seq)) ELSE sent
    /\ snd' = [snd EXCEPT !.pc = "retx", !.i = 0, !.intr = (g_interrupted # 0)]
    /\ UNCHANGED << cfgvars, rcvvars, rx, ev, now, legacy, infile, g_interrupted >>

\* the test of "for (int i = 0; i < 3; ++i)"
LegacyRetxContinues(i) == i < RETRANSMITS

\* one iteration of the retransmission loop; the last one returns from main
LegacyRetransmit ==
    /\ snd.prog = "sender.cpp"
    /\ snd.pc = "retx"
    /\ IF LegacyRetxContinues(snd.i)
       THEN /\ sent' = Append(sent, LegacyMarker(snd.seq))
            /\ snd' = [snd EXCEPT !.i = snd.i + 1,
                                   !.pc = IF LegacyRetxContinues(snd.i + 1)
                                          THEN "retx" ELSE "done"]
       ELSE /\ sent' = sent
            /\ snd' = [snd EXCEPT !.pc = "done"]
    /\ UNCHANGED << cfgvars, rcvvars, rx, ev, now, legacy, infile, g_interrupted >>

(* ---------------------- the network of the receiver -------------------- *)

\* the payload the modelled network carries in frame seq of stream sid
FramePayload(sid, seq) == << 16 * sid + seq >>

\* every datagram the modelled network can hand to the receiver: the frames of
\* two streams, with and without the final flag, and one datagram of 8 bytes
Universe ==
    { Encode(1, seq, fl, FramePayload(1, seq)) : seq \in 1 .. MaxSeq, fl \in {0, FLAG_FINAL} }
    \cup
    { Encode(2, seq, fl, FramePayload(2, seq)) : seq \in ShortSeqs, fl \in {0, FLAG_FINAL} }
    \cup { BE32(1) \o BE32(1) }

RecvAny == \E d \in Universe : Recv(d)

\* every datagram the modelled network can hand to the single-stream receiver:
\* the frames of one stream, with and without the final flag, and 4 bytes
LegacyUniverse ==
    { LegacyEncode(seq, fl, FramePayload(0, seq)) : seq \in 1 .. MaxSeq, fl \in {0, FLAG_FINAL} }
    \cup { BE32(1) }

LegacyRecvAny == \E d \in LegacyUniverse : LegacyRecv(d)

(* ------------------------------ specification -------------------------- *)

Config(all, ids, pat, t, op) ==
    [ subscribe_all |-> all, subs |-> ids, out_pattern |-> pat, timeout |-> t,
      openable |-> op ]

\* the command lines and environments tried
Configs ==
    { Config(TRUE, {}, StreamPattern, MaxTimeout, StreamIds),
      Config(FALSE, {1}, Dash, MaxTimeout, StreamIds),
      Config(FALSE, {1}, StreamPattern, 0, StreamIds),
      Config(FALSE, {1, 2}, StreamPattern, MaxTimeout, StreamIds),
      Config(FALSE, {1, 2}, StreamPattern, MaxTimeout, {2}) }

\* the stream-id receiver as it enters its loop, started as command line c says
StartReceiver(c) ==
    /\ subscribe_all = c.subscribe_all
    /\ subs = c.subs
    /\ out_pattern = c.out_pattern
    /\ timeout = c.timeout
    /\ openable = c.openable
    /\ pc = "run"
    /\ streams = [s \in {} |-> NewStreamState]
    /\ files = [s \in StreamIds |-> <<>>]
    /\ cout = <<>>
    /\ cerr = {}
    /\ sinklog = "none"
    /\ rx = NoDatagram
    /\ ev = "init"
    /\ first = [s \in StreamIds |-> EmptyMap]
    /\ now = 0

\* no single-stream receiver in this run
NoLegacy ==
    legacy = [ pc |-> "off", expected |-> 1, buffer |-> EmptyMap,
               final_seen |-> FALSE, final_seq |-> 0, final_at |-> 0,
               out |-> <<>>, report |-> {}, first |-> EmptyMap ]

\* no sender in this run
NoSender ==
    /\ snd = [ prog |-> "none", pc |-> "off", seq |-> 1, pos |-> 0, eof |-> FALSE,
               i |-> 0, failed |-> FALSE, mark |-> 0, intr |-> FALSE,
               pps |-> 0, last |-> 0, t0 |-> 0 ]
    /\ infile = <<>>
    /\ g_interrupted = 0

\* no stream-id receiver in this run
NoReceiver ==
    /\ subscribe_all = FALSE
    /\ subs = {}
    /\ out_pattern = Dash
    /\ openable = {}
    /\ pc = "off"
    /\ streams = [s \in {} |-> NewStreamState]
    /\ files = [s \in StreamIds |-> <<>>]
    /\ cout = <<>>
    /\ cerr = {}
    /\ sinklog = "none"
    /\ first = [s \in StreamIds |-> EmptyMap]

\* the single-stream receiver as it enters its loop, started with -t t
StartLegacy(t) ==
    /\ timeout = t
    /\ legacy = [ pc |-> "run", expected |-> 1, buffer |-> EmptyMap,
                  final_seen |-> FALSE, final_seq |-> 0, final_at |-> 0,
                  out |-> <<>>, report |-> {}, first |-> EmptyMap ]
    /\ rx = NoDatagram
    /\ ev = "init"
    /\ now = 0

\* either receiver, fed by a network that reorders, repeats and drops
Init ==
    /\ \/ (\E c \in Configs : StartReceiver(c)) /\ NoLegacy
       \/ (\E t \in {0, MaxTimeout} : StartLegacy(t)) /\ NoReceiver
    /\ NoSender
    /\ sent = <<>>

Next ==
    \/ RecvAny
    \/ RecvTimeout
    \/ RecvError
    \/ LegacyRecvAny
    \/ LegacyRecvTimeout
    \/ LegacyRecvError
    \/ Advance

Spec == Init /\ [][Next]_vars

(* -------------------------- the senders on their own ------------------ *)

\* byte i of the files sent
SourceByte(i) == i % 251

Source(len) == [i \in 1 .. len |-> SourceByte(i)]

\* the lengths tried: empty, under one chunk, exact multiples, short last chunk
SourceLengths ==
    { k * PAYLOAD_SIZE + r : k \in 0 .. MaxChunks, r \in {0, 1} }

\* sender prog as it enters its send loop on a file of len bytes with -r pps;
\* part_001 starts with last = now, sender.cpp with last_send = 0.0, which lies
\* more than an interval before time(nullptr)
StartSenderAt(prog, len, pps) ==
    /\ snd = [ prog |-> prog, pc |-> "loop", seq |-> 1, pos |-> 0, eof |-> FALSE,
               i |-> 0, failed |-> FALSE, mark |-> 0, intr |-> FALSE,
               pps |-> pps, last |-> IF prog = "sender.cpp" THEN -1 ELSE 0,
               t0 |-> 0 ]
    /\ infile = Source(len)
    /\ g_interrupted = 0

\* the same without a target rate
StartSender(prog, len) == StartSenderAt(prog, len, 0)

\* no receiver in this run
ReceiversOff ==
    /\ NoReceiver
    /\ NoLegacy
    /\ timeout = 0
    /\ rx = NoDatagram
    /\ ev = "init"
    /\ now = 0

InitSender ==
    /\ \E prog \in {"part_001", "sender.cpp"}, len \in SourceLengths :
          StartSender(prog, len)
    /\ ReceiversOff
    /\ sent = <<>>

\* the steps of the sender's own thread
SenderStep ==
    \/ SendAny
    \/ PostLoop
    \/ Retransmit
    \/ LegacySendAny
    \/ LegacyPostLoop
    \/ LegacyRetransmit

NextSender ==
    \/ SenderStep
    \/ Interrupt

SpecSender == InitSender /\ [][NextSender]_vars

\* the sender's thread is scheduled; a signal may or may not arrive
SpecSenderLive == SpecSender /\ WF_vars(SenderStep)

(* ---------------------------- the paced sender ------------------------ *)

\* the stream-id sender started with -r 1 (one frame per second)
InitPacing ==
    /\ \E len \in SourceLengths : StartSenderAt("part_001", len, 1)
    /\ ReceiversOff
    /\ sent = <<>>

NextPacing ==
    \/ SendAny
    \/ Stall
    \/ PostLoop
    \/ Retransmit

SpecPacing == InitPacing /\ [][NextPacing]_vars

(* ------------- reassembly of one stream with varying payloads --------- *)

\* the command lines tried with one stream on the channel
OneStreamConfigs ==
    { Config(FALSE, {1}, Dash, MaxTimeout, StreamIds),
      Config(FALSE, {1}, StreamPattern, 0, StreamIds),
      Config(TRUE, {}, StreamPattern, MaxTimeout, StreamIds),
      Config(FALSE, {1, 2}, StreamPattern, MaxTimeout, {2}) }

\* frames of stream 1 with every payload tried, for the stream-id receiver
VariedUniverse ==
    { Encode(1, seq, fl, p) : seq \in 1 .. MaxSeq, fl \in {0, FLAG_FINAL}, p \in Payloads }

RecvVaried == \E d \in VariedUniverse : Recv(d)

\* the stream-id receiver fed one stream whose payloads vary, within one second
InitReassembly ==
    /\ \E c \in OneStreamConfigs : StartReceiver(c)
    /\ NoLegacy
    /\ NoSender
    /\ sent = <<>>

NextReassembly ==
    \/ RecvVaried
    \/ RecvTimeout
    \/ RecvError

SpecReassembly == InitReassembly /\ [][NextReassembly]_vars

(* --------------- one complete stream, delivered in any order ----------- *)

\* the frames 1..N of stream 1, frame N final, as the stream-id sender builds them
OrderFrames(N) ==
    [k \in 1 .. N |-> Encode(1, k, IF k = N THEN FLAG_FINAL ELSE 0, FramePayload(1, k))]

\* the same frames as the single-stream sender builds them
LegacyOrderFrames(N) ==
    [k \in 1 .. N |-> LegacyEncode(k, IF k = N THEN FLAG_FINAL ELSE 0, FramePayload(1, k))]

\* the network hands over any frame sent so far, any number of times
RecvSent == \E k \in 1 .. Len(sent) : Recv(sent[k])

LegacyRecvSent == \E k \in 1 .. Len(sent) : LegacyRecv(sent[k])

InitOrder ==
    /\ \E N \in 1 .. MaxSeq :
          \/ /\ \E c \in OneStreamConfigs : StartReceiver(c)
             /\ NoLegacy
             /\ sent = OrderFrames(N)
          \/ /\ \E t \in {0, MaxTimeout} : StartLegacy(t)
             /\ NoReceiver
             /\ sent = LegacyOrderFrames(N)
    /\ NoSender

NextOrder ==
    \/ RecvSent
    \/ RecvTimeout
    \/ RecvError
    \/ LegacyRecvSent
    \/ LegacyRecvTimeout
    \/ LegacyRecvError
    \/ Advance

SpecOrder == InitOrder /\ [][NextOrder]_vars

(* ------------------- sender and receiver on one channel ---------------- *)

\* the command lines tried for the receiver of the stream sent
E2EConfigs ==
    { Config(FALSE, {1}, Dash, MaxTimeout, StreamIds),
      Config(FALSE, {1}, StreamPattern, 0, StreamIds),
      Config(TRUE, {}, StreamPattern, MaxTimeout, StreamIds) }

\* the lengths of the files sent to a receiver
E2ELengths ==
    { k * PAYLOAD_SIZE + r : k \in 0 .. (MaxE2EChunks - 1), r \in {0, 1} }
    \cup { MaxE2EChunks * PAYLOAD_SIZE }

\* the stream-id sender and the stream-id receiver start together
InitE2E ==
    /\ \E len \in E2ELengths : StartSender("part_001", len)
    /\ \E c \in E2EConfigs : StartReceiver(c)
    /\ NoLegacy
    /\ sent = <<>>

NextE2E ==
    \/ SendAny
    \/ PostLoop
    \/ Retransmit
    \/ RecvSent
    \/ RecvTimeout
    \/ RecvError
    \/ Advance

SpecE2E == InitE2E /\ [][NextE2E]_vars

(* ------------------- datagrams of every kind of length ----------------- *)

\* the payload lengths tried: none, one byte, a full chunk, one byte too many
WireLengths == {0, 1, PAYLOAD_SIZE, PAYLOAD_SIZE + 1}

\* datagrams shorter than a header, and frames of one stream with payloads of
\* the lengths above
WireUniverse ==
    { SubSeq(Encode(1, 1, FLAG_FINAL, <<>>), 1, k) : k \in {0, 4, HDR_LEN - 1} }
    \cup
    { Encode(1, seq, fl, Source(len)) :
        seq \in 1 .. 2, fl \in {0, FLAG_FINAL}, len \in WireLengths }

RecvWire == \E d \in WireUniverse : Recv(d)

InitWire ==
    /\ \E c \in E2EConfigs : StartReceiver(c)
    /\ NoLegacy
    /\ NoSender
    /\ sent = <<>>

NextWire ==
    \/ RecvWire
    \/ RecvTimeout
    \/ RecvError

SpecWire == InitWire /\ [][NextWire]_vars

(* ------------------------- the stream reassembler --------------------- *)

\* the last loop iteration decoded a frame of stream sid
Routed(sid) == rx.n >= HDR_LEN /\ rx.sid = sid

\* the stream-id receiver ingests frames of stream sid
Accepts(sid) == pc = "run" /\ (subscribe_all \/ sid \in subs)

\* C2 (dedup idempotence): a loop iteration that ingests a frame whose
\* (stream_id, sequence) was ingested before, with the same or with other
\* payload bytes, emits nothing and leaves expected and pending as they were,
\* so the emitted output is the one of a single delivery; every pending entry
\* holds the payload first seen for its sequence.
C2_DedupIdempotent ==
    [][ \A s \in StreamIds :
          (Accepts(s) /\ Routed(s)' /\ rx'.seq \in DOMAIN first[s])
          => /\ files' = files
             /\ cout' = cout
             /\ StreamOf(streams', s).expected = StreamOf(streams, s).expected
             /\ StreamOf(streams', s).buffer = StreamOf(streams, s).buffer
             /\ \A k \in DOMAIN streams'[s].buffer :
                   streams'[s].buffer[k] = first'[s][k] ]_vars

\* C2 witness: an out-of-order duplicate arrived with a payload other than the
\* pending one
C2_Witness ==
    /\ Routed(1) /\ ev = "dup"
    /\ streams[1].buffer[rx.seq] # rx.payload
    /\ streams[1].buffer[rx.seq] = first[1][rx.seq]

\* the fields of a StreamState the stale branch must leave alone
Reassembly(st) ==
    << st.expected, st.buffer, st.final_seen, st.final_seq, st.final_at >>

\* C3 (stale drop): a loop iteration that reads a frame whose sequence is lower
\* than its stream's expected leaves that stream's expected, pending,
\* final_seen, final_sequence, final_observed_at and the emitted output
\* unchanged, with or without the final flag, in both receivers.
C3_StaleDrop ==
    [][ /\ \A s \in StreamIds :
             ( /\ Accepts(s) /\ Routed(s)'
               /\ rx'.seq < StreamOf(streams, s).expected )
             => /\ Reassembly(StreamOf(streams', s)) = Reassembly(StreamOf(streams, s))
                /\ files' = files
                /\ cout' = cout
        /\ ( /\ legacy.pc = "run" /\ rx'.n >= LEGACY_HDR_LEN
             /\ rx'.seq < legacy.expected )
           => /\ Reassembly(legacy') = Reassembly(legacy)
              /\ legacy'.out = legacy.out ]_vars

\* C3 witness: a stale frame carrying the final flag was dropped by a stream
\* that has seen no final marker
C3_Witness ==
    /\ Routed(1) /\ ev = "stale" /\ IsFinal(rx.flags)
    /\ ~streams[1].final_seen
    /\ files[1] # <<>>

(* ------------------- the demultiplexer and the supervisor -------------- *)

GapReport(st) ==
    [ expected |-> st.expected, final_sequence |-> st.final_seq,
      orphaned |-> Cardinality(DOMAIN st.buffer) ]

\* the first-ingested payloads of sequences a..b-1 of stream sid, in order
RECURSIVE FirstBytes(_, _, _)
FirstBytes(sid, a, b) ==
    IF a >= b THEN <<>> ELSE first[sid][a] \o FirstBytes(sid, a + 1, b)

\* C5 (forced completion reports the gap): a timeout tick that finds a stream
\* with a final marker seen, a sequence still missing and the timeout elapsed
\* completes the stream (its sink is closed), leaves in the sink exactly the
\* payloads of 1..expected-1, and reports expected, final_sequence and the
\* number of buffered entries.
C5_ForcedCompletionReportsGap ==
    [][ \A s \in DOMAIN streams :
          ( /\ pc = "run" /\ ev' = "tick" /\ rx'.n < 0
            /\ streams[s].has_file
            /\ streams[s].expected <= streams[s].final_seq
            /\ TimedOut(streams[s]) )
          => /\ ~streams'[s].is_open
             /\ files'[s] = FirstBytes(s, 1, streams'[s].expected)
             /\ GapReport(streams'[s]) \in cerr' ]_vars

\* C6 (AcceptSet termination): a timeout tick at which every subscribed stream
\* is finished or has its finalization timeout elapsed ends the receive loop.
C6_TickTerminates ==
    [][ ( /\ pc = "run" /\ ev' = "tick" /\ rx'.n < 0
          /\ ~subscribe_all /\ subs # {}
          /\ \A s \in subs :
                s \in DOMAIN streams
                /\ (Finished(streams[s]) \/ TimedOut(streams[s])) )
        => pc' = "done" ]_vars

\* C7 (AcceptAll never self-terminates): with -s all the loop ends only in the
\* iteration whose recv failed with a transport error.
C7_AcceptAllRuns ==
    [][ (subscribe_all /\ pc = "run" /\ pc' = "done") => ev' = "error" ]_vars

\* C7 witness: with -s all, one stream finished, another was timed out, and the
\* loop is still running
C7_Witness ==
    /\ subscribe_all /\ pc = "run"
    /\ \E s \in DOMAIN streams : Finished(streams[s])
    /\ cerr # {}

(* ----------------------- order and round trip ------------------------- *)

\* the payloads of the frames k..Len(sent) of the log, concatenated
RECURSIVE SentPayloads(_)
SentPayloads(k) ==
    IF k > Len(sent) THEN <<>> ELSE Decode(sent[k]).payload \o SentPayloads(k + 1)

RECURSIVE LegacySentPayloads(_)
LegacySentPayloads(k) ==
    IF k > Len(sent) THEN <<>>
    ELSE LegacyDecode(sent[k]).payload \o LegacySentPayloads(k + 1)

\* the bytes emitted to the sink of stream sid
SinkBytes(sid) == IF single_to_stdout THEN cout ELSE files[sid]

\* stream sid can emit: stdout, or a file that opens
SinkUsable(sid) == single_to_stdout \/ sid \in openable

\* the stream reached completion: it is finished, or its file was closed
Completed(st) == Finished(st) \/ (st.has_file /\ ~st.is_open)

\* every frame of the complete stream was ingested at least once
AllIngested == pc # "off" /\ sent # <<>> /\ DOMAIN first[1] = 1 .. Len(sent)

LegacyAllIngested ==
    legacy.pc # "off" /\ sent # <<>> /\ DOMAIN legacy.first = 1 .. Len(sent)

\* C1 (order property): once every frame of a stream 1..N, frame N final, was
\* delivered at least once, in whatever order and with whatever duplicates,
\* the sink holds the payloads of 1..N concatenated in sequence order and the
\* stream has reached completion, in both receivers.
C1_OrderProperty ==
    /\ (AllIngested /\ SinkUsable(1))
       => /\ SinkBytes(1) = SentPayloads(1)
          /\ Completed(streams[1])
    /\ LegacyAllIngested
       => /\ legacy.out = LegacySentPayloads(1)
          /\ legacy.pc = "done"

\* the order property of runs in which no finalization timeout expired
C1_OrderWithoutTimeout ==
    /\ (AllIngested /\ SinkUsable(1) /\ cerr = {})
       => /\ SinkBytes(1) = SentPayloads(1)
          /\ Completed(streams[1])
    /\ LegacyAllIngested
       => /\ legacy.out = LegacySentPayloads(1)
          /\ legacy.pc = "done"

\* the run was not interrupted and no sendto failed
Undisturbed == g_interrupted = 0 /\ ~snd.failed

\* every frame the sender transmitted was ingested at least once
AllSentIngested ==
    /\ snd.pc = "done"
    /\ \A k \in 1 .. Len(sent) : Decode(sent[k]).seq \in DOMAIN first[stream_id]

\* C9 (chunking round trip): once an undisturbed sender has returned and every
\* frame it transmitted was delivered at least once, the stream has reached
\* completion and its sink holds the bytes of the file.
C9_RoundTrip ==
    (Undisturbed /\ AllSentIngested /\ SinkUsable(stream_id))
    => /\ stream_id \in DOMAIN streams
       /\ Completed(streams[stream_id])
       /\ SinkBytes(stream_id) = infile

\* the round trip of runs in which no finalization timeout expired
C9_RoundTripWithoutTimeout ==
    (Undisturbed /\ AllSentIngested /\ SinkUsable(stream_id) /\ cerr = {})
    => /\ stream_id \in DOMAIN streams
       /\ Completed(streams[stream_id])
       /\ SinkBytes(stream_id) = infile

(* ------------------------------ the chunker ---------------------------- *)

\* frame k of the log, as the receiver of the same protocol decodes it
SentFrame(k) ==
    IF snd.prog = "part_001" THEN Decode(sent[k]) ELSE LegacyDecode(sent[k])

\* a header-only frame with the final flag
IsMarker(f) == IsFinal(f.flags) /\ f.payload = <<>>

\* chunk k of the file
Chunk(k) == SubSeq(infile, (k - 1) * PAYLOAD_SIZE + 1, k * PAYLOAD_SIZE)

\* C8 (exact-multiple chunking): a sender that ran undisturbed to its end on a
\* file of K * PAYLOAD_SIZE bytes, K >= 1, has sent the K chunks in full as
\* frames 1..K, none of them final, and after them only header-only final
\* frames with sequence K + 1, at least one.
C8_ExactMultiple ==
    \A K \in 1 .. (MaxChunks + 1) :
      ( /\ snd.pc = "done" /\ Undisturbed
        /\ Len(infile) = K * PAYLOAD_SIZE )
      => /\ Len(sent) > K
         /\ \A k \in 1 .. K :
               /\ SentFrame(k).seq = k
               /\ ~IsFinal(SentFrame(k).flags)
               /\ SentFrame(k).payload = Chunk(k)
         /\ \A k \in (K + 1) .. Len(sent) :
               /\ SentFrame(k).seq = K + 1
               /\ IsMarker(SentFrame(k))

\* C8 witness: the stream-id sender has sent a file of 3 * 1200 bytes as the
\* frames 1, 2, 3 and the final markers at 4
C8_Witness ==
    /\ snd.prog = "part_001" /\ snd.pc = "done" /\ Undisturbed
    /\ Len(infile) = 3 * PAYLOAD_SIZE
    /\ SentFrame(3).payload = Chunk(3)
    /\ SentFrame(4).seq = 4 /\ IsMarker(SentFrame(4))

\* the frames sent since the send loop was left
AfterLoop == SubSeq(sent, snd.mark + 1, Len(sent))

\* the index in the log of the first frame of the retransmission loop
RetxFirst == snd.mark + (IF snd.intr THEN 1 ELSE 0) + 1

\* every frame sent since the send loop was left is a header-only final frame
\* with the sequence number the sender holds
OnlyMarkersAfterLoop ==
    \A k \in (snd.mark + 1) .. Len(sent) :
        /\ IsMarker(SentFrame(k))
        /\ SentFrame(k).seq = snd.seq
        /\ SentFrame(k).n = (IF snd.prog = "part_001" THEN HDR_LEN ELSE LEGACY_HDR_LEN)

\* C10 as stated: a sender that returned sent exactly 3 frames after its send
\* loop ended, all header-only final frames with one sequence number.
C10_ExactlyThreeAfterLoop ==
    snd.pc = "done" => (Len(AfterLoop) = RETRANSMITS /\ OnlyMarkersAfterLoop)

\* C10 (final-marker redundancy): however the send loop ends, the sender then
\* sends only header-only final frames, all with the sequence number it holds
\* at that point: one if the interruption flag is set when the loop is left,
\* then exactly 3 from the retransmission loop; and it terminates.
C10_FinalMarkerRedundancy ==
    /\ [] ( snd.pc \in {"post", "retx", "done"} => OnlyMarkersAfterLoop )
    /\ [] ( snd.pc = "done"
            => /\ Len(sent) - RetxFirst + 1 = RETRANSMITS
               /\ Len(AfterLoop) = RETRANSMITS + (IF snd.intr THEN 1 ELSE 0) )
    /\ <> ( snd.pc = "done" )

\* C10 witness: an interrupted sender returned after the interruption marker
\* and the 3 retransmissions
C10_Witness ==
    /\ snd.pc = "done" /\ snd.intr
    /\ Len(AfterLoop) = RETRANSMITS + 1
    /\ snd.mark > 0

(* ------------------------- the sender's frame log ---------------------- *)

\* the sequence numbers of the frames transmitted so far
SentSeqs == { SentFrame(k).seq : k \in 1 .. Len(sent) }

\* the frame transmitted last
LastSent == SentFrame(Len(sent))

\* the step sends the interruption marker
SendsInterruptMarker ==
    /\ snd.pc = "post" /\ snd'.pc = "retx" /\ snd'.intr
    /\ Len(sent') = Len(sent) + 1

\* C11 (interruption marker): the frame a sender transmits because it found the
\* interruption flag set is a header-only final frame whose sequence number no
\* frame transmitted earlier in the run carries.
C11_InterruptMarkerUnused ==
    [][ SendsInterruptMarker
        => /\ IsMarker(LastSent')
           /\ LastSent'.seq \notin SentSeqs ]_vars

(* -------------------------------- pacing ------------------------------- *)

\* the number of frames the send loop has transmitted
PacedFrames == IF snd.pc = "loop" THEN Len(sent) ELSE snd.mark

\* C12 (rate pacing bound): with a target rate of R frames per second, the
\* time from the start of the send loop to the transmission of frame K lies
\* within one pacing interval of K / R, whatever the delays of the iterations.
C12_PacingBound ==
    (snd.pps > 0 /\ ~snd.failed /\ PacedFrames >= 1)
    => LET elapsed == snd.last - snd.t0
           ideal   == PacedFrames * Interval(snd.pps)
       IN  /\ elapsed <= ideal + Interval(snd.pps)
           /\ elapsed >= ideal - Interval(snd.pps)

(* ------------------------------- the codec ----------------------------- *)

\* the loop iteration received a datagram
Received == pc = "run" /\ rx'.n >= 0

\* the iteration left every StreamState and every sink as it was and the loop
\* running
NothingTouched ==
    /\ pc' = "run"
    /\ streams' = streams
    /\ files' = files
    /\ cout' = cout

\* the bytes of datagram d after the header
AfterHeader(d) == SubSeq(d, HDR_LEN + 1, Len(d))

\* C13 as stated: a datagram shorter than 12 bytes is dropped with nothing
\* touched; every longer datagram is decoded, its payload being all bytes after
\* the header.
C13_DecodeAllBytes ==
    [][ Received
        => IF Len(rx'.raw) < HDR_LEN
           THEN ev' = "short" /\ NothingTouched
           ELSE ev' # "short" /\ rx'.payload = AfterHeader(rx'.raw) ]_vars

\* C13 (TooShort): a datagram shorter than 12 bytes is dropped with nothing
\* touched and the loop running; every datagram of 12 bytes or more is decoded,
\* its payload being the bytes after the header that fit the receive buffer of
\* 1212 bytes: all of them for a datagram of at most 1212 bytes, the first
\* 1200 of a longer one.
C13_TooShort ==
    [][ Received
        => IF Len(rx'.raw) < HDR_LEN
           THEN ev' = "short" /\ NothingTouched
           ELSE /\ ev' # "short"
                /\ rx'.payload = SubSeq(AfterHeader(rx'.raw), 1,
                                        Min(Len(rx'.raw) - HDR_LEN, PAYLOAD_SIZE))
                /\ Len(rx'.raw) <= MAX_PKT => rx'.payload = AfterHeader(rx'.raw) ]_vars

\* C13 witness: a datagram of 11 bytes was dropped by a receiver that holds a
\* stream with pending data
C13_Witness ==
    /\ ev = "short" /\ Len(rx.raw) = HDR_LEN - 1
    /\ pc = "run"
    /\ \E s \in DOMAIN streams : DOMAIN streams[s].buffer # {}

(* ------------------------- the subscription filter --------------------- *)

\* C14 (subscription filter): with a set of subscribed ids, a loop iteration
\* that reads a frame of a stream id outside the set creates no StreamState,
\* opens no sink, leaves every StreamState and every sink as they were and
\* leaves the loop running.
C14_SubscriptionFilter ==
    [][ \A s \in StreamIds :
          (pc = "run" /\ Routed(s)' /\ ~subscribe_all /\ s \notin subs)
          => /\ ev' = "unsubscribed"
             /\ NothingTouched
             /\ cerr' = cerr ]_vars

\* C14 witness: a final frame of stream 2 was dropped by a receiver subscribed
\* to stream 1 alone, which it is still reassembling
C14_Witness ==
    /\ ev = "unsubscribed" /\ Routed(2) /\ IsFinal(rx.flags)
    /\ subs = {1} /\ pc = "run"
    /\ 1 \in DOMAIN streams /\ 2 \notin DOMAIN streams

(* ----------------------------- sink selection -------------------------- *)

\* the command lines tried for the choice of the sink
SinkConfigs ==
    { Config(FALSE, {1}, Dash, MaxTimeout, StreamIds),
      Config(FALSE, {1, 2}, Dash, MaxTimeout, StreamIds),
      Config(TRUE, {}, Dash, MaxTimeout, StreamIds),
      Config(FALSE, {1}, StreamPattern, MaxTimeout, StreamIds),
      Config(FALSE, {1, 2}, StreamPattern, MaxTimeout, StreamIds),
      Config(TRUE, {}, StreamPattern, MaxTimeout, StreamIds),
      Config(TRUE, {}, PlainPattern, MaxTimeout, StreamIds) }

InitSink ==
    /\ \E c \in SinkConfigs : StartReceiver(c)
    /\ NoLegacy
    /\ NoSender
    /\ sent = <<>>

NextSink ==
    \/ RecvAny
    \/ RecvTimeout
    \/ RecvError

SpecSink == InitSink /\ [][NextSink]_vars

\* the subscription is an AcceptSet of exactly one id and the target is "-"
OneIdToDash == (~subscribe_all) /\ Cardinality(subs) = 1 /\ out_pattern = Dash

\* stream sid has its file, at the path the pattern gives for sid, and no other
\* stream has its file at that path
OwnFile(m, sid) ==
    /\ sid \in DOMAIN m
    /\ m[sid].has_file
    /\ m[sid].fname = FileName(out_pattern, sid)
    /\ \A t \in DOMAIN m :
         (t # sid /\ m[t].has_file) => m[t].fname # m[sid].fname

\* C15 (sink selection): a loop iteration that accepts a frame of stream s
\* writes to stdout only when one id is subscribed and the target is "-", and
\* then it opens no file; in every other configuration it leaves stdout alone
\* and stream s has, from its first accepted frame on, a file of its own whose
\* path is the pattern with the placeholder replaced by s in decimal.
C15_SinkSelection ==
    [][ \A s \in StreamIds :
          (Accepts(s) /\ Routed(s)')
          => IF OneIdToDash
             THEN /\ files' = files
                  /\ ~streams'[s].has_file
             ELSE /\ cout' = cout
                  /\ OwnFile(streams', s) ]_vars

(* -------------------------------- the codec ---------------------------- *)

\* the stream ids and sequence numbers put through the codec: 1, 0x01020304
\* and 0x7FFFFFFF
CodecValues == {1, 16909060, 2147483647}

\* the payload lengths put through the codec
CodecLengths == {0, 1, PAYLOAD_SIZE - 1, PAYLOAD_SIZE}

\* the datagram the send loop builds in buf for a chunk: the three header words
\* through htonl, the payload behind them, tosend = HDR_LEN + n bytes
BuildFrame(sid, seq, is_final, payload) ==
    Encode(sid, seq, IF is_final THEN FLAG_FINAL ELSE 0, payload)

\* the sender builds one frame from the inputs and hands it to sendto
CodecSend(sid, seq, is_final, payload) ==
    /\ sent = <<>>
    /\ sent' = << BuildFrame(sid, seq, is_final, payload) >>
    /\ UNCHANGED << cfgvars, rcvvars, rx, ev, now, legacy, sndvars >>

CodecSendAny ==
    \E sid \in CodecValues, seq \in CodecValues, is_final \in BOOLEAN,
       len \in CodecLengths : CodecSend(sid, seq, is_final, Source(len))

InitCodec ==
    /\ StartReceiver(Config(FALSE, {1}, StreamPattern, MaxTimeout, StreamIds))
    /\ NoLegacy
    /\ NoSender
    /\ sent = <<>>

NextCodec ==
    \/ CodecSendAny
    \/ RecvSent

SpecCodec == InitCodec /\ [][NextCodec]_vars

\* datagram d is a 12-byte big-endian header of (sid, seq, flags) with only bit
\* 0 of the flags set, that bit being is_final, followed by payload
Layout(d, sid, seq, is_final, payload) ==
    /\ Len(d) = 12 + Len(payload)
    /\ Len(d) <= 1212
    /\ \A i \in 1 .. 12 : d[i] \in 0 .. 255
    /\ sid = ((d[1] * 256 + d[2]) * 256 + d[3]) * 256 + d[4]
    /\ seq = ((d[5] * 256 + d[6]) * 256 + d[7]) * 256 + d[8]
    /\ d[9] = 0 /\ d[10] = 0 /\ d[11] = 0
    /\ d[12] = (IF is_final THEN 1 ELSE 0)
    /\ \A i \in 1 .. Len(payload) : d[12 + i] = payload[i]

\* C16 (codec round-trip): for every stream id, sequence, final flag and
\* payload of 0..1200 bytes, the datagram the sender builds is the 12-byte
\* big-endian header with only bit 0 of the flags ever set, followed by the
\* payload, at most 1212 bytes in all; and when the receiver has decoded that
\* datagram it holds the same stream id, sequence, final flag and payload.
C16_CodecRoundTrip ==
    \A sid \in CodecValues, seq \in CodecValues, is_final \in BOOLEAN,
       len \in CodecLengths :
       LET d == BuildFrame(sid, seq, is_final, Source(len))
       IN  /\ (sent = << d >>) => Layout(d, sid, seq, is_final, Source(len))
           /\ (sent = << d >> /\ rx.n >= 0)
              => /\ rx.n = Len(d)
                 /\ rx.sid = sid
                 /\ rx.seq = seq
                 /\ IsFinal(rx.flags) = is_final
                 /\ rx.payload = Source(len)

\* the receiver decoded a full-size final frame of its stream whose sequence
\* number fills all four bytes
C16_Witness ==
    /\ Len(sent) = 1
    /\ rx.raw = sent[1]
    /\ rx.sid = 1 /\ rx.seq = 16909060 /\ IsFinal(rx.flags)
    /\ Len(rx.payload) = PAYLOAD_SIZE
    /\ ev = "buffered"

(* --------------------------- sender numbering -------------------------- *)

\* the positions in the log of the data chunks: the frames that are not
\* header-only final frames
DataChunks == { k \in 1 .. Len(sent) : ~IsMarker(SentFrame(k)) }

\* the bytes of the file from offset off on, len of them
FileBytes(off, len) == SubSeq(infile, off + 1, off + len)

\* C17 (sender numbering): at every point of a sender run, the j-th data chunk
\* transmitted carries sequence number j (1, 2, 3, ... with no gap and no
\* repeat), its payload is the 1..1200 bytes of the file at offset
\* (j - 1) * 1200, and it carries the final flag exactly when the read that
\* produced it was short, which makes it the chunk that ends the file.
C17_SenderNumbering ==
    \A k \in DataChunks :
       LET f   == SentFrame(k)
           j   == Cardinality({ i \in DataChunks : i <= k })
           off == (j - 1) * PAYLOAD_SIZE
       IN  /\ f.seq = j
           /\ Len(f.payload) \in 1 .. PAYLOAD_SIZE
           /\ off + Len(f.payload) <= Len(infile)
           /\ f.payload = FileBytes(off, Len(f.payload))
           /\ IsFinal(f.flags) <=> (Len(f.payload) < PAYLOAD_SIZE)
           /\ IsFinal(f.flags) => (off + Len(f.payload) = Len(infile))

\* C17 witness: a sender has sent a file of 2 * 1200 + 1 bytes: two full
\* chunks, the chunk of one byte marked final, then the markers
C17_Witness ==
    /\ snd.pc = "done" /\ Undisturbed
    /\ Len(infile) = 2 * PAYLOAD_SIZE + 1
    /\ DataChunks = {1, 2, 3}
    /\ ~IsFinal(SentFrame(2).flags)
    /\ IsFinal(SentFrame(3).flags) /\ Len(SentFrame(3).payload) = 1
    /\ Len(sent) > 3

(* ------------------------- the final sequence number ------------------- *)

\* C18 (final marker is the last sequence): once a frame with the final flag
\* was transmitted with sequence s, no frame transmitted after it carries a
\* sequence number greater than s, so all final-flagged frames of a run carry
\* one sequence number.
C18_FinalIsLastSequence ==
    \A i \in 1 .. Len(sent) : \A j \in (i + 1) .. Len(sent) :
       IsFinal(SentFrame(i).flags) => SentFrame(j).seq <= SentFrame(i).seq

(* ------------------------------- resends ------------------------------- *)

\* C19 (no mutated resend): any two frames transmitted in one sender run with
\* the same sequence number carry the same payload bytes.
C19_NoMutatedResend ==
    \A i \in 1 .. Len(sent) : \A j \in 1 .. Len(sent) :
       SentFrame(i).seq = SentFrame(j).seq
       => SentFrame(i).payload = SentFrame(j).payload

(* --------------------------- last-seen-final wins ---------------------- *)

\* final_seen, final_seq and final_at of a stream state
FinalFields(st) == << st.final_seen, st.final_seq, st.final_at >>

\* the step is a loop iteration of the stream-id receiver that got a frame of
\* a stream it accepts
IngestsFrame(sid) == Accepts(sid) /\ Routed(sid)' /\ now' = now

\* the step is a loop iteration of the single-stream receiver that got a frame
LegacyIngestsFrame == legacy.pc = "run" /\ rx'.n >= LEGACY_HDR_LEN /\ now' = now

\* C20 (last-seen-final wins): a loop iteration that ingests a frame with the
\* final flag and a sequence number not below expected leaves the stream with
\* final_seen set, final_seq equal to the frame's sequence number (whatever was
\* recorded before) and final_at equal to the time of the iteration; a loop
\* iteration that gets a frame without the final flag leaves the three fields
\* of every stream as they were. Both receivers.
C20_LastSeenFinalWins ==
    [][ /\ \A s \in StreamIds :
             IngestsFrame(s)
             => IF IsFinal(rx'.flags)
                THEN rx'.seq >= StreamOf(streams, s).expected
                     => FinalFields(streams'[s]) = << TRUE, rx'.seq, now >>
                ELSE \A t \in DOMAIN streams' :
                        FinalFields(streams'[t]) = FinalFields(StreamOf(streams, t))
        /\ LegacyIngestsFrame
           => IF IsFinal(rx'.flags)
              THEN rx'.seq >= legacy.expected
                   => FinalFields(legacy') = << TRUE, rx'.seq, now >>
              ELSE FinalFields(legacy') = FinalFields(legacy) ]_vars

\* C20 witness: at a time later than the start, the stream-id receiver holds
\* frame 3 pending and has just buffered a final frame with sequence 2, which
\* is now the recorded final sequence with the current time
C20_Witness ==
    /\ pc = "run" /\ Routed(1) /\ Accepts(1)
    /\ ev = "buffered" /\ IsFinal(rx.flags) /\ rx.seq = 2
    /\ 3 \in DOMAIN streams[1].buffer
    /\ now > 0
    /\ FinalFields(streams[1]) = << TRUE, 2, now >>

(* --------------------------- the pending buffer ------------------------ *)

\* the entries of the buffer that the step removed
Drained(st0, st1) == (DOMAIN st0.buffer) \ (DOMAIN st1.buffer)

\* C21 (pending invariant): in every reachable state every key of a stream's
\* buffer is at or above its expected (the buffer is a map, so it holds one
\* entry per sequence number) and expected is at least 1; no step lowers
\* expected, and a step raises it by one for the frame emitted in order plus
\* one for every buffered entry it drained.
C21_PendingInvariant ==
    /\ [](\A s \in DOMAIN streams :
             /\ streams[s].expected >= 1
             /\ \A k \in DOMAIN streams[s].buffer : k >= streams[s].expected)
    /\ [][ \A s \in DOMAIN streams' :
             LET st0 == StreamOf(streams, s)
                 st1 == streams'[s]
             IN  /\ st1.expected >= st0.expected
                 /\ st1.expected - st0.expected
                    \in { Cardinality(Drained(st0, st1)),
                          Cardinality(Drained(st0, st1)) + 1 } ]_vars

\* C21 witness: frame 1 arrived after frames 2 and 3 and drained both
C21_Witness ==
    /\ pc = "run" /\ ev = "inorder" /\ Routed(1) /\ rx.seq = 1
    /\ streams[1].expected = 4
    /\ 2 \in DOMAIN first[1] /\ 3 \in DOMAIN first[1]
    /\ streams[1].buffer = EmptyMap

(* --------------------------- the contiguous prefix --------------------- *)

\* the sink of stream sid holds the first-delivered payloads of the sequences
\* 1..expected-1 in order, all of them delivered, and expected itself was never
\* delivered
PrefixEmitted(sid) ==
    LET e == streams[sid].expected
    IN  /\ (1 .. (e - 1)) \subseteq DOMAIN first[sid]
        /\ e \notin DOMAIN first[sid]
        /\ SinkBytes(sid) = FirstBytes(sid, 1, e)

\* C22 (contiguous-prefix invariant): in every reachable state, running or
\* ended, of every stream whose sink can be used, the sink holds exactly the
\* first-delivered payloads of 1..expected-1 in sequence order, and
\* expected-1 is the longest contiguous prefix of the delivered sequences.
C22_ContiguousPrefix ==
    \A s \in DOMAIN streams : SinkUsable(s) => PrefixEmitted(s)

(* ------------------------- a sink that cannot be opened ---------------- *)

\* the stream state a frame leaves when it is ingested as usual
IngestedAsUsual(st, seq, flags, payload) ==
    LET ing == Ingest(st, seq, payload)
    IN  IF ing.branch = "stale" THEN ing.st ELSE MarkFinal(ing.st, seq, flags)

\* C23 (SinkOpenError): a loop iteration that accepts a frame of a stream
\* whose file cannot be opened ingests it as usual (expected, pending and the
\* final fields), writes its bytes nowhere, leaves every other stream as it
\* was, and reports the failure for the first frame of the stream only.
C23_SinkOpenError ==
    [][ \A s \in StreamIds :
          (IngestsFrame(s) /\ ~SinkUsable(s))
          => /\ Reassembly(streams'[s])
                = Reassembly(IngestedAsUsual(StreamOf(streams, s), rx'.seq,
                                             rx'.flags, rx'.payload))
             /\ files' = files
             /\ cout' = cout
             /\ \A t \in DOMAIN streams : t # s => streams'[t] = streams[t]
             /\ (sinklog' = "error") <=> (s \notin DOMAIN streams) ]_vars

(* ----------------------------- transport errors ------------------------ *)

\* some subscribed stream, or in accept-all mode some stream seen, has not
\* reached final_seen with expected above final_seq
SomeIncomplete ==
    \/ \E s \in DOMAIN streams : ~Finished(streams[s])
    \/ \E s \in subs : s \notin DOMAIN streams

\* C24 (transport errors are fatal to the owning loop): a loop iteration whose
\* recv failed with an error that is no timeout ends the receive loop, in
\* either subscription mode, and leaves no sink open; a sendto failure in the
\* send loop ends that loop with nothing transmitted, and every frame sent
\* after it is a header-only final frame; a timeout tick leaves the receive
\* loop running while a stream is incomplete.
C24_TransportErrorsFatal ==
    [][ /\ (pc = "run" /\ ev' = "error" /\ rx'.n < 0)
           => /\ pc' = "done"
              /\ \A s \in DOMAIN streams' : ~streams'[s].is_open
        /\ (snd.pc = "loop" /\ ~snd.failed /\ snd'.failed)
           => /\ snd'.pc # "loop"
              /\ sent' = sent
        /\ (snd.failed /\ sent' # sent)
           => /\ snd.pc # "loop"
              /\ IsMarker(LastSent')
        /\ (pc = "run" /\ ev' = "tick" /\ rx'.n < 0 /\ SomeIncomplete)
           => pc' = "run" ]_vars

\* C24 witness: the sender's loop ended on a failed sendto after its first
\* chunk, and the receiver, which had written that chunk to its file, ended on
\* a recv error with the stream incomplete and the file closed
C24_Witness ==
    /\ snd.failed /\ snd.pc = "done" /\ Len(sent) > 1
    /\ pc = "done" /\ ev = "error"
    /\ stream_id \in DOMAIN streams
    /\ streams[stream_id].has_file /\ ~streams[stream_id].is_open
    /\ ~Finished(streams[stream_id])
    /\ files[stream_id] # <<>>

(* --------------------------- no early termination ---------------------- *)

\* C25 (no early termination): in AcceptSet mode, a loop iteration without a
\* transport error ends the receive loop only when every subscribed stream id
\* has a stream with final_seen set and expected above final_seq; a subscribed
\* id no frame was received from keeps the loop running.
C25_NoEarlyTermination ==
    [][ (pc = "run" /\ pc' = "done" /\ ~subscribe_all /\ ev' # "error")
        => \A s \in subs :
              /\ s \in DOMAIN streams'
              /\ streams'[s].final_seen
              /\ streams'[s].expected > streams'[s].final_seq ]_vars

\* C25 witness: with two subscribed ids the loop ended, at a time after the
\* start, on the frame that completed the second stream
C25_Witness ==
    /\ subs = {1, 2} /\ pc = "done" /\ ev = "inorder"
    /\ Finished(streams[1]) /\ Finished(streams[2])
    /\ now > 0

(* --------------------------- completion is stable ---------------------- *)

\* the step is a timeout tick of the stream-id receiver
Ticks == pc = "run" /\ ev' = "tick" /\ rx'.n < 0

\* C26 (completion is stable): a stream that has final_seen set and expected
\* above final_seq, which is what the termination check counts as complete,
\* is still counted as complete after a timeout tick, so that the loop ends
\* when the last subscribed stream completes.
C26_CompletionStable ==
    [][ \A s \in DOMAIN streams :
          (Ticks /\ Finished(streams[s])) => Finished(streams'[s]) ]_vars

(* ----------------------- timeout only after a final marker ------------- *)

\* the step is a timeout tick of the single-stream receiver
LegacyTicks == legacy.pc = "run" /\ ev' = "tick" /\ rx'.n < 0

\* no final-flagged frame was accepted for the stream (sequence numbers start
\* at 1, so a recorded final_seq is never 0), or no more than the timeout has
\* elapsed since the last one
TickMustSpare(st) == st.final_seq = 0 \/ (now - st.final_at) <= timeout

\* C27 (timeout applies only after a final marker): a timeout tick leaves
\* every stream for which no final-flagged frame was accepted, and every
\* stream whose final_at is not more than the timeout back, exactly as it was
\* (expected, pending, final fields, sink) and writes no report for it; the
\* single-stream receiver's tick leaves its loop running and its state
\* untouched in the same cases.
C27_TimeoutOnlyAfterFinal ==
    [][ /\ Ticks
           => \A s \in DOMAIN streams :
                 TickMustSpare(streams[s])
                 => /\ streams'[s] = streams[s]
                    /\ files'[s] = files[s]
                    /\ TimeoutReport(s, streams[s]) \in cerr'
                       => TimeoutReport(s, streams[s]) \in cerr
        /\ LegacyTicks
           => (TickMustSpare(legacy) => legacy' = legacy) ]_vars

\* C27 witness: after a tick later than the timeout, stream 2 with its final
\* marker was reported while stream 1, which has no final marker, still holds
\* its pending frames
C27_Witness ==
    /\ pc = "run" /\ ev = "tick" /\ now > timeout
    /\ 1 \in DOMAIN streams /\ 2 \in DOMAIN streams
    /\ streams[1].final_seq = 0 /\ streams[1].expected = 1
    /\ DOMAIN streams[1].buffer = {2, 3}
    /\ streams[2].final_seq = 1
    /\ TimeoutReport(2, streams[2]) \in cerr
    /\ TimeoutReport(1, streams[1]) \notin cerr

(* ------------------------------ the exit drain ------------------------- *)

\* nothing is buffered at expected or below, so the drain of the contiguous
\* entries from expected on stops at once and emits nothing
NothingToDrain(expected, buffer) ==
    /\ \A k \in DOMAIN buffer : k > expected
    /\ FlushEnd(expected, buffer) = expected
    /\ FlushBytes(buffer, expected, FlushEnd(expected, buffer)) = <<>>

\* the step ends the stream-id receiver's loop without ingesting a frame
ExitsOnTickOrError == pc = "run" /\ pc' = "done" /\ rx'.n < 0

\* the step ends the single-stream receiver's loop without ingesting a frame
LegacyExitsOnTickOrError == legacy.pc = "run" /\ legacy'.pc = "done" /\ rx'.n < 0

\* C28 (the exit drain is empty): in every reachable state of both receivers
\* every key of pending is above expected, so a drain of the contiguous
\* entries from expected on emits nothing and leaves expected as it is; a
\* loop exit on a timeout or a recv error leaves expected, the entries still
\* pending and the emitted bytes as they were, the entries being lost.
C28_ExitDrainEmpty ==
    /\ [](/\ \A s \in DOMAIN streams :
               NothingToDrain(streams[s].expected, streams[s].buffer)
          /\ NothingToDrain(legacy.expected, legacy.buffer))
    /\ [][ /\ ExitsOnTickOrError
              => /\ files' = files /\ cout' = cout
                 /\ \A s \in DOMAIN streams :
                       /\ streams'[s].expected = streams[s].expected
                       /\ streams'[s].buffer = streams[s].buffer
           /\ LegacyExitsOnTickOrError
              => /\ legacy'.out = legacy.out
                 /\ legacy'.expected = legacy.expected
                 /\ legacy'.buffer = legacy.buffer ]_vars

\* C28 witness: the single-stream receiver left its loop on a timeout after
\* its final marker, with frame 1 emitted, frame 2 missing and frame 3 still
\* pending
C28_Witness ==
    /\ legacy.pc = "done" /\ ev = "tick"
    /\ legacy.expected = 2
    /\ DOMAIN legacy.buffer = {3}
    /\ legacy.out = FramePayload(0, 1)
    /\ legacy.report # {}


(* ----------------------- cooperative cancellation ---------------------- *)

\* the steps of the sender's own thread, the loop test and the loop body taken
\* apart so that a signal can arrive between them
CancelStep ==
    \/ LoopTest
    \/ LoopBodyAny
    \/ PostLoop
    \/ Retransmit
    \/ LegacyLoopTest
    \/ LegacyLoopBodyAny
    \/ LegacyPostLoop
    \/ LegacyRetransmit

NextCancel ==
    \/ CancelStep
    \/ Interrupt

SpecCancel == InitSender /\ [][NextCancel]_vars

\* the sender's thread is scheduled; a signal may or may not arrive
SpecCancelLive == SpecCancel /\ WF_vars(CancelStep)

\* the longest log a run can leave: the chunks, the frame that ends the file,
\* the interruption marker and the retransmissions
MaxSent == MaxChunks + 2 + RETRANSMITS

\* the data frames (not header-only final frames) among the frames sent after
\* the first n
DataAfter(n) == { k \in DataChunks : k > n }

\* frame k went out whole: its header and all the bytes read for it
WholeFrame(k) ==
    LET j == Cardinality({ i \in DataChunks : i <= k })
    IN  IF k \in DataChunks
        THEN /\ SentFrame(k).payload
                  = SubSeq(infile, (j - 1) * PAYLOAD_SIZE + 1,
                           Min(j * PAYLOAD_SIZE, Len(infile)))
             /\ SentFrame(k).n = Len(sent[k])
        ELSE SentFrame(k).n = (IF snd.prog = "part_001" THEN HDR_LEN ELSE LEGACY_HDR_LEN)

\* C29 (cooperative cancellation): wherever in the sender's run the
\* interruption flag is raised, at most one data frame is transmitted after
\* that point, and only by a loop body that had passed the loop test before;
\* every frame transmitted is whole; a sender that found the flag set when it
\* left the loop sends the interruption marker and the 3 retransmissions, all
\* header-only final frames; and the sender terminates.
C29_CooperativeCancellation ==
    /\ \A n \in 0 .. MaxSent :
          [] ( (g_interrupted # 0 /\ Len(sent) = n)
               => [] ( Cardinality(DataAfter(n)) <= 1 ) )
    /\ [][ (g_interrupted # 0 /\ sent' # sent /\ ~IsMarker(LastSent'))
           => (snd.pc = "body" /\ snd'.pc \in {"loop", "post"}) ]_vars
    /\ [] ( \A k \in 1 .. Len(sent) : WholeFrame(k) )
    /\ [] ( (snd.pc = "done" /\ snd.intr)
            => (Len(AfterLoop) = RETRANSMITS + 1 /\ OnlyMarkersAfterLoop) )
    /\ (g_interrupted # 0) ~> (snd.pc = "done")

\* C29 witness: a sender interrupted in a file of 3 chunks returned after one
\* data frame, the interruption marker and the 3 retransmissions
C29_Witness ==
    /\ snd.pc = "done" /\ snd.intr /\ g_interrupted # 0
    /\ Len(infile) = 3 * PAYLOAD_SIZE
    /\ DataChunks = {1}
    /\ Len(sent) = 1 + 1 + RETRANSMITS

====
